---- MODULE Spec2Model ----
(***************************************************************************)
(* arnab: a dependency-driven SQL transformation pipeline.                 *)
(* The model follows Session::run (src/src/session.rs) and                 *)
(* Node::execute_sql (src/src/node.rs): discovery of the model sources,    *)
(* rendering and reference filtering, the graph builder, the depth-first   *)
(* scheduler (topo) and the per-model execution loop against one shared    *)
(* connection.                                                             *)
(***************************************************************************)
EXTENDS Integers, Sequences, FiniteSets, TLC

(***************************************************************************)
(* Bounds of the model.                                                    *)
(***************************************************************************)
\* most table names one query reads from
MaxDeps == 2
\* most `;`-separated fragments in one model source
MaxFrags == 3
\* depth of the call stack at which the recursion of topo overflows
StackLimit == 5

\* the model sources found under model_path (file stems)
ModelIds == {"a", "b", "c"}
\* relations of the database that are no model
Externals == {"raw"}
Names == ModelIds \cup Externals

\* Option::None of Node.materialize and of ModelInfo.materialize
None == "<None>"
\* values of `materialize` a config.yaml may give
MatValues == {"view", "table", "TABLE", "incremental"}

Range(s) == {s[i] : i \in 1..Len(s)}
SeqsUpTo(A, n) == UNION {[1..k -> A] : k \in 0..n}
Last(s) == s[Len(s)]

(***************************************************************************)
(* SQL text.  A fragment is the text between two `;`: its leading keyword  *)
(* as written, the relations it names, and whether the engine accepts it.  *)
(* Blank is the empty (or all-whitespace) piece a trailing `;` leaves.     *)
(***************************************************************************)
Blank == [head |-> "", rel |-> {}, valid |-> TRUE]
Select(from) == [head |-> "SELECT", rel |-> from, valid |-> TRUE]
WithQuery(from) == [head |-> "with", rel |-> from, valid |-> TRUE]
\* a query the parser accepts and the engine rejects (binder error)
BadSelect(from) == [head |-> "select", rel |-> from, valid |-> FALSE]
InsertInto(t) == [head |-> "INSERT", rel |-> {t}, valid |-> TRUE]
SetPragma == [head |-> "SET", rel |-> {}, valid |-> TRUE]
\* a fragment holding only a trailing comment: `... ; -- note`
CommentOnly == [head |-> "--", rel |-> {}, valid |-> TRUE]

\* text the SQL parser rejects: `SELEC * FROM t`
Unparsable == [head |-> "SELEC", rel |-> {}, valid |-> FALSE]
\* a query the parser accepts whose template fails to render:
\* `SELECT '{{ undefined_fn() }}'`
UnknownCall == [head |-> "SELECT '{{", rel |-> {}, valid |-> TRUE]

\* the text of a macro file: `{% macro upstream() %}a{% endmacro %}`
MacroDef == [head |-> "{% macro", rel |-> {}, valid |-> TRUE]
\* the invocation of that macro, written where a table name goes:
\* `SELECT * FROM {{ upstream() }}`
MacroCall == "{{ upstream() }}"
\* a query reading from what the macro expands to
SelectFromMacro == [head |-> "SELECT", rel |-> {MacroCall}, valid |-> TRUE]

\* Parser::parse_sql(..) is Ok on the piece of text: template syntax
\* outside a string literal is no SQL
Parses(frag) ==
    /\ frag.head \notin {"SELEC", "{% macro"}
    /\ MacroCall \notin frag.rel

\* str::to_uppercase / str::to_lowercase on the words the model uses
ToUpper(w) ==
    CASE w = "select" -> "SELECT"
      [] w = "with" -> "WITH"
      [] OTHER -> w

ToLower(w) ==
    CASE w = "TABLE" -> "table"
      [] OTHER -> w


VARIABLES
    files,              \* the model sources on disk: stem -> [ext, raw_src]
    config,             \* Session.config.models: stem -> materialize or None
    db,                 \* Session.db_conn: relation -> [kind, rows]
    pc,                 \* position in Session::run
    node_map,           \* node_map: id -> Node
    invalid_node_ids,
    terminal_ids,       \* terminals not yet handed to topo
    stack,              \* call stack of topo: frames [id, rest]
    sorted_ids,
    sorted_valid_ids,
    nth_processed,
    statements,         \* execute_sql: the fragments of the current model
    frag_i,             \* execute_sql: index of the next fragment
    n_rows,             \* execute_sql: n_rows
    result,             \* what node.execute returned, not yet matched
    conn_log,           \* every statement sent to the connection
    n_execution_success,
    execution_errors,
    status_lines,       \* the status printed per model: [id, status, rows]
    ret,                \* what Session::run returned
    warnings,           \* the WARNING lines printed: <<missing id, requiring id>>
    topo_roots,         \* the ids topo was called with from Session::run
    first_run,          \* what an earlier run on the same database left
    macros,             \* the texts of the files under macro_path
    ast,                \* get_sql_references: the parsed statement
    refs                \* get_sql_references: the returned table names

vars == <<files, config, db, pc, node_map, invalid_node_ids, terminal_ids,
          stack, sorted_ids, sorted_valid_ids, nth_processed, statements,
          frag_i, n_rows, result, conn_log, n_execution_success,
          execution_errors, status_lines, ret, warnings, topo_roots,
          first_run, macros, ast, refs>>

\* what Session::run never writes
otherVars == <<first_run, macros, ast, refs>>

schedVars == <<invalid_node_ids, terminal_ids, stack, sorted_ids,
               sorted_valid_ids, warnings, topo_roots>>
execVars == <<nth_processed, statements, frag_i, n_rows, result, conn_log,
              n_execution_success, execution_errors, status_lines, db>>

NoResult == [kind |-> "none"]
NoRun == [kind |-> "none"]
NoStatement == [kind |-> "none"]

(***************************************************************************)
(* Initial states: a constructed Session, a database holding the external  *)
(* relations, and the sources under model_path.                            *)
(***************************************************************************)
SmallSets(S, n) == {T \in SUBSET S : Cardinality(T) <= n}

InitDb ==
    [r \in Names |->
        IF r \in Externals THEN [kind |-> "table", rows |-> 1]
                           ELSE [kind |-> "none", rows |-> 0]]

InitLocals ==
    /\ node_map = <<>>
    /\ invalid_node_ids = {}
    /\ terminal_ids = {}
    /\ stack = <<>>
    /\ sorted_ids = <<>>
    /\ sorted_valid_ids = <<>>
    /\ nth_processed = 1
    /\ statements = <<>>
    /\ frag_i = 0
    /\ n_rows = 0
    /\ result = NoResult
    /\ conn_log = <<>>
    /\ n_execution_success = 0
    /\ execution_errors = <<>>
    /\ status_lines = <<>>
    /\ ret = "running"
    /\ warnings = {}
    /\ topo_roots = <<>>
    /\ refs = {}

InitRest ==
    /\ InitLocals
    /\ db = InitDb
    /\ pc = "load"
    /\ first_run = NoRun
    /\ ast = NoStatement

\* every model is one query ending in `;`, over any tables: all graphs
InitGraphs ==
    /\ \E from \in [ModelIds -> SmallSets(Names, MaxDeps)] :
          files = [m \in ModelIds |->
                      [ext |-> "sql", raw_src |-> <<Select(from[m]), Blank>>]]
    /\ config = [m \in ModelIds |-> None]

\* the chain raw <- a <- b <- c, one model of it with any fragments and
\* any configured materialization
ChainFrom(m) ==
    CASE m = "a" -> {"raw"}
      [] m = "b" -> {"a"}
      [] OTHER -> {"b"}

Alphabet(m) ==
    {Select(ChainFrom(m)), WithQuery(ChainFrom(m)), BadSelect(ChainFrom(m)),
     InsertInto(m), SetPragma, CommentOnly}

InitChain ==
    \E r \in ModelIds :
       \E src \in SeqsUpTo(Alphabet(r), MaxFrags) :
          \E mat \in MatValues \cup {None} :
             /\ files = [m \in ModelIds |->
                   [ext |-> "sql",
                    raw_src |-> IF m = r THEN src \o <<Blank>>
                                ELSE <<Select(ChainFrom(m)), Blank>>]]
             /\ config = [m \in ModelIds |-> IF m = r THEN mat ELSE None]

\* extensions of the files found under model_path
Extensions == {"sql", "py"}

\* the chain with one source of any extension, holding text that may fail
\* to parse or to render
InitDiscovery ==
    \E r \in ModelIds :
       \E ext \in Extensions :
          \E src \in SeqsUpTo({Select(ChainFrom(r)), Unparsable,
                                UnknownCall}, MaxFrags) :
             /\ files = [m \in ModelIds |->
                   [ext |-> IF m = r THEN ext ELSE "sql",
                    raw_src |-> IF m = r THEN src \o <<Blank>>
                                ELSE <<Select(ChainFrom(m)), Blank>>]]
             /\ config = [m \in ModelIds |-> None]

\* the chain with a macro file, or a model invoking the macro, or both
InitMacros ==
    \E ms \in {<<>>, <<MacroDef>>} :
       \E r \in {"b", "c"} :
          \E q \in {SelectFromMacro, Select(ChainFrom(r))} :
             /\ macros = ms
             /\ files = [m \in ModelIds |->
                   [ext |-> "sql",
                    raw_src |-> IF m = r THEN <<q, Blank>>
                                ELSE <<Select(ChainFrom(m)), Blank>>]]
             /\ config = [m \in ModelIds |-> None]

Init ==
    /\ \/ (InitGraphs \/ InitChain \/ InitDiscovery) /\ macros = <<>>
       \/ InitMacros
    /\ InitRest

(***************************************************************************)
(* Discovery: Session::run, the loop over model_paths.                     *)
(***************************************************************************)
NewNode(id, ext, raw_src) ==
    [path |-> <<"models", id, ext>>, id |-> id, raw_src |-> raw_src,
     rendered_src |-> <<>>, nexts |-> {}, prevs |-> {}, materialize |-> None]

\* slip: every extension is taken for a SQL model
NodeTypeOf_any(extension) == "Sql"

\* match extension { "sql" => NodeType::Sql, _ => return Err(..) }
NodeTypeOf(extension) ==
    IF extension = "sql" THEN "Sql" ELSE "UnknownModelType"

LoadModels ==
    /\ pc = "load"
    /\ IF \E m \in DOMAIN files : NodeTypeOf(files[m].ext) # "Sql"
       THEN /\ ret' = "UnknownModelType"
            /\ pc' = "done"
            /\ UNCHANGED node_map
       ELSE /\ node_map' = [m \in DOMAIN files |->
                  [NewNode(m, files[m].ext, files[m].raw_src)
                      EXCEPT !.materialize = config[m]]]
            /\ pc' = "render"
            /\ UNCHANGED ret
    /\ UNCHANGED <<otherVars, files, config, schedVars, execVars>>

(***************************************************************************)
(* Reference extraction and filtering: Node::render_and_populate_refs.     *)
(***************************************************************************)
IsQuery(frag) == ToUpper(frag.head) \in {"SELECT", "WITH"}

\* the table names of the FROM targets of every query statement
get_sql_references(src) ==
    UNION {src[i].rel : i \in {j \in 1..Len(src) : IsQuery(src[j])}}

\* the macro texts, then the source of the model
macro_src_concat(node) == macros \o node.raw_src

\* what a name of the template renders to
Expand(name) == IF name = MacroCall THEN "a" ELSE name

\* Template::render(..) is Ok on the piece of text
Renders(frag) ==
    /\ frag.head # "SELECT '{{"
    /\ MacroCall \in frag.rel => MacroDef \in Range(macros)

\* the rendered text: a macro definition leaves nothing, an invocation
\* leaves its expansion
RenderText(src) ==
    LET NotMacroDef(f) == f # MacroDef
        body == SelectSeq(src, NotMacroDef)
    IN  [i \in 1..Len(body) |->
            [body[i] EXCEPT !.rel = {Expand(n) : n \in @}]]

\* slip: the references are populated and the rendering is left for later
render_and_populate_refs_norender(node, all_model_names) ==
    [node EXCEPT
        !.prevs = {v \in get_sql_references(macro_src_concat(node)) :
                      v \in all_model_names}]

\* slip: the collected names are kept without the filter
render_and_populate_refs_unfiltered(node, all_model_names) ==
    [node EXCEPT
        !.prevs = get_sql_references(macro_src_concat(node)),
        !.rendered_src = RenderText(macro_src_concat(node))]

render_and_populate_refs(node, all_model_names) ==
    [node EXCEPT
        !.prevs = {v \in get_sql_references(macro_src_concat(node)) :
                      v \in all_model_names},
        !.rendered_src = RenderText(macro_src_concat(node))]

\* none of the unwrap() calls of render_and_populate_refs panics
CanRender(node) ==
    \A i \in 1..Len(macro_src_concat(node)) :
       /\ Parses(macro_src_concat(node)[i])
       /\ Renders(macro_src_concat(node)[i])

RenderAll ==
    /\ pc = "render"
    /\ IF \A m \in DOMAIN node_map : CanRender(node_map[m])
       THEN /\ node_map' = [m \in DOMAIN node_map |->
                  render_and_populate_refs(node_map[m], DOMAIN node_map)]
            /\ pc' = "graph"
       ELSE /\ pc' = "panic"
            /\ UNCHANGED node_map
    /\ UNCHANGED <<otherVars, files, config, schedVars, execVars, ret>>

(***************************************************************************)
(* Graph builder: nexts as the inverse of prevs, invalid ids, terminals.   *)
(***************************************************************************)
\* slip: a later dependent overwrites the earlier one
Dependents_one(nodes, p) ==
    LET D == {m \in DOMAIN nodes : p \in nodes[m].prevs}
    IN  IF D = {} THEN {} ELSE {CHOOSE m \in D : TRUE}

Dependents(nodes, p) == {m \in DOMAIN nodes : p \in nodes[m].prevs}

InvalidIds(nodes) ==
    {p \in UNION {nodes[m].prevs : m \in DOMAIN nodes} : p \notin DOMAIN nodes}

\* WARNING: Model `p` required by `m` not found
Warnings(nodes) ==
    {<<p, m>> \in InvalidIds(nodes) \X DOMAIN nodes : p \in nodes[m].prevs}

\* slip: every model is taken for a terminal
Terminals_all(nodes) == DOMAIN nodes

\* slip: the models without dependencies are taken for the terminals
Terminals_sources(nodes) == {m \in DOMAIN nodes : nodes[m].prevs = {}}

\* the nodes whose nexts is empty
Terminals(nodes) == {m \in DOMAIN nodes : nodes[m].nexts = {}}

PopulateOutgoing ==
    /\ pc = "graph"
    /\ node_map' = [m \in DOMAIN node_map |->
                       [node_map[m] EXCEPT !.nexts = Dependents(node_map, m)]]
    /\ invalid_node_ids' = InvalidIds(node_map)
    /\ warnings' = Warnings(node_map)
    /\ terminal_ids' = Terminals(node_map')
    /\ pc' = "topo"
    /\ UNCHANGED <<otherVars, files, config, stack, sorted_ids,
                   sorted_valid_ids, topo_roots, execVars, ret>>

(***************************************************************************)
(* Scheduler: topo, one step per call and per return.                      *)
(***************************************************************************)
\* slip: the recursion follows the dependents instead of the dependencies
TopoChildren_nexts(node) == node.nexts

\* the ids a call of topo recurses into
TopoChildren(node) == node.prevs

\* slip: the id is put in front of the output instead of behind it
TopoPush_front(out, id) == <<id>> \o out

\* out.push(root_id)
TopoPush(out, id) == Append(out, id)

\* slip: a model already in the output is traversed again
TopoCall_again(root_id, stk) ==
    IF root_id \notin DOMAIN node_map
    THEN /\ stack' = stk
         /\ pc' = "panic"
    ELSE IF Len(stk) >= StackLimit
    THEN /\ stack' = stk
         /\ pc' = "overflow"
    ELSE /\ stack' = Append(stk, [id |-> root_id,
                                  rest |-> TopoChildren(node_map[root_id])])
         /\ pc' = pc

\* a call topo(root_id, nodes, out) made with the stack `stk`
TopoCall(root_id, stk) ==
    IF root_id \in Range(sorted_ids)
    THEN /\ stack' = stk
         /\ pc' = pc
    ELSE IF root_id \notin DOMAIN node_map
    THEN /\ stack' = stk
         /\ pc' = "panic"
    ELSE IF Len(stk) >= StackLimit
    THEN /\ stack' = stk
         /\ pc' = "overflow"
    ELSE /\ stack' = Append(stk, [id |-> root_id,
                                  rest |-> TopoChildren(node_map[root_id])])
         /\ pc' = pc

TopoStart ==
    /\ pc = "topo"
    /\ stack = <<>>
    /\ \E t \in terminal_ids :
          /\ terminal_ids' = terminal_ids \ {t}
          /\ topo_roots' = Append(topo_roots, t)
          /\ TopoCall(t, stack)
    /\ UNCHANGED <<otherVars, files, config, node_map, invalid_node_ids,
                   sorted_ids, sorted_valid_ids, warnings, execVars, ret>>

TopoVisit ==
    /\ pc = "topo"
    /\ stack # <<>>
    /\ \E p \in Last(stack).rest :
          TopoCall(p, [stack EXCEPT ![Len(stack)].rest = @ \ {p}])
    /\ UNCHANGED <<otherVars, files, config, node_map, invalid_node_ids,
                   terminal_ids, sorted_ids, sorted_valid_ids, warnings,
                   topo_roots, execVars, ret>>

TopoReturn ==
    /\ pc = "topo"
    /\ stack # <<>>
    /\ Last(stack).rest = {}
    /\ sorted_ids' = TopoPush(sorted_ids, Last(stack).id)
    /\ stack' = SubSeq(stack, 1, Len(stack) - 1)
    /\ UNCHANGED <<otherVars, files, config, node_map, invalid_node_ids,
                   terminal_ids, sorted_valid_ids, warnings, topo_roots,
                   execVars, pc, ret>>

\* slip: the filter keeps the invalid ids
IsValidId_inverted(v) == v \in invalid_node_ids

\* !invalid_node_ids.contains(v)
IsValidId(v) == v \notin invalid_node_ids

FilterInvalid ==
    /\ pc = "topo"
    /\ stack = <<>>
    /\ terminal_ids = {}
    /\ sorted_valid_ids' = SelectSeq(sorted_ids, IsValidId)
    /\ pc' = "exec"
    /\ UNCHANGED <<otherVars, files, config, node_map, invalid_node_ids,
                   terminal_ids, stack, sorted_ids, warnings, topo_roots,
                   execVars, ret>>

(***************************************************************************)
(* The engine behind Connection::execute and Connection::prepare, as far   *)
(* as the pipeline observes it: a statement succeeds or fails with a       *)
(* message, and may create or change a relation.                           *)
(***************************************************************************)
NoStatementMsg == "No statement to prepare"

Exists(d, r) == d[r].kind # "none"

RECURSIVE SumRows(_, _)
SumRows(d, S) ==
    IF S = {} THEN 0
    ELSE LET r == CHOOSE x \in S : TRUE
         IN d[r].rows + SumRows(d, S \ {r})

\* cardinality of a query's result: one row, or the rows of what it reads
QueryRows(frag, d) == IF frag.rel = {} THEN 1 ELSE SumRows(d, frag.rel)

Verbatim(frag) ==
    [create |-> "", name |-> "", body |-> frag, replace |-> FALSE]

\* slip: the statement is CREATE <what> <id> AS (..), without OR REPLACE
CreateOrReplace_plain(what, id, frag) ==
    [create |-> what, name |-> id, body |-> frag, replace |-> FALSE]

\* CREATE OR REPLACE <what> <id> AS (<frag>)
CreateOrReplace(what, id, frag) ==
    [create |-> what, name |-> id, body |-> frag, replace |-> TRUE]

EngineExecute(sql, d) ==
    LET b == sql.body
        fail(m) == [ok |-> FALSE, msg |-> m, db |-> d]
    IN  IF b.head \in {"", "--"} THEN fail(NoStatementMsg)
        ELSE IF ~b.valid THEN fail("Binder Error")
        ELSE IF sql.create # "" /\ ~sql.replace /\ Exists(d, sql.name)
        THEN fail("Catalog Error")
        ELSE IF sql.create # ""
        THEN IF \A r \in b.rel : Exists(d, r)
             THEN [ok |-> TRUE, msg |-> "",
                   db |-> [d EXCEPT ![sql.name] =
                             [kind |-> IF sql.create = "TABLE" THEN "table"
                                       ELSE "view",
                              rows |-> QueryRows(b, d)]]]
             ELSE fail("Catalog Error")
        ELSE IF b.head = "INSERT"
        THEN IF \A r \in b.rel : d[r].kind = "table"
             THEN [ok |-> TRUE, msg |-> "",
                   db |-> [r \in DOMAIN d |->
                             IF r \in b.rel
                             THEN [d[r] EXCEPT !.rows = @ + 1] ELSE d[r]]]
             ELSE fail("Catalog Error")
        ELSE IF ToUpper(b.head) \in {"SELECT", "WITH"}
        THEN fail("Execute returned results")
        ELSE [ok |-> TRUE, msg |-> "", db |-> d]

(***************************************************************************)
(* Node::execute_sql.                                                      *)
(***************************************************************************)
IsNonEmpty(frag) == frag.head # ""

\* rendered_src.split(';').map(trim).filter(non-empty)
SplitStatements(src) == SelectSeq(src, IsNonEmpty)

\* slip: the keyword is compared without to_uppercase
will_produce_records_cased(statement) ==
    \E sw \in {"SELECT", "WITH"} : statement.head = sw

will_produce_records(statement) ==
    \E sw \in {"SELECT", "WITH"} : ToUpper(statement.head) = sw

statements_returning_records(stmts) ==
    {i \in 1..Len(stmts) : will_produce_records(stmts[i])}

\* the check `statements_returning_records.len() != 1` passes
HasOneSelect(stmts) == Cardinality(statements_returning_records(stmts)) = 1

CountError(id, n) ==
    [kind |-> "Error",
     msg |-> <<"Models must have exactly one SELECT statement", id, n>>]

MaterializationError(materialize) ==
    [kind |-> "Error",
     msg |-> <<"Unknown materialization type", materialize>>]

StatementExecutionError(msg, path, sql) ==
    [kind |-> "StatementExecutionError", msg |-> msg, path |-> path,
     sql |-> sql]

Ok(v) == [kind |-> "Ok", n_rows |-> v]
Err(e) == [kind |-> "Err", err |-> e]

\* slip: every record-producing fragment becomes a view
Rewrite_view_only(node, statement) ==
    IF ToUpper(statement.head) \notin {"SELECT", "WITH"}
    THEN [kind |-> "Ok", sql |-> Verbatim(statement)]
    ELSE [kind |-> "Ok", sql |-> CreateOrReplace("VIEW", node.id, statement)]

\* adjusted_statement of one loop iteration, or the error returned instead
Rewrite(node, statement) ==
    IF ~will_produce_records(statement)
    THEN [kind |-> "Ok", sql |-> Verbatim(statement)]
    ELSE IF node.materialize = None
    THEN [kind |-> "Ok", sql |-> CreateOrReplace("VIEW", node.id, statement)]
    ELSE IF ToLower(node.materialize) = "table"
    THEN [kind |-> "Ok", sql |-> CreateOrReplace("TABLE", node.id, statement)]
    ELSE IF ToLower(node.materialize) = "view"
    THEN [kind |-> "Ok", sql |-> CreateOrReplace("VIEW", node.id, statement)]
    ELSE [kind |-> "Err", err |-> MaterializationError(node.materialize)]

\* slip: every engine error is taken for the empty-statement condition
IsBenign_any(msg) == TRUE

\* slip: the empty-statement condition is an error like any other
IsBenign_none(msg) == FALSE

\* err_msg.contains("No statement to prepare")
IsBenign(msg) == msg = NoStatementMsg

\* self.materialize == Some("table".into())
CountsRows(node) == node.materialize = "table"

\* n_rows after a successful fragment: SELECT COUNT(*) FROM <id>, when the
\* count is asked for and can be prepared
CountAfter(node, d, n) ==
    IF CountsRows(node) /\ Exists(d, node.id) THEN d[node.id].rows ELSE n

\* slip: the loop steps over every other statement
NextFragment_skip(i) == i + 2

\* the loop `for statement in &statements` goes to the next one
NextFragment(i) == i + 1

CurrentNode == node_map[sorted_valid_ids[nth_processed]]

ExecuteBegin ==
    /\ pc = "exec"
    /\ nth_processed <= Len(sorted_valid_ids)
    /\ LET stmts == SplitStatements(CurrentNode.rendered_src)
       IN  /\ statements' = stmts
           /\ n_rows' = 0
           /\ IF HasOneSelect(stmts)
              THEN /\ frag_i' = 1
                   /\ result' = NoResult
                   /\ pc' = "frag"
              ELSE /\ frag_i' = 0
                   /\ result' = Err(CountError(CurrentNode.id,
                          Cardinality(statements_returning_records(stmts))))
                   /\ pc' = "outcome"
    /\ UNCHANGED <<otherVars, files, config, node_map, schedVars, nth_processed, db,
                   conn_log, n_execution_success, execution_errors,
                   status_lines, ret>>

ExecuteFragment ==
    /\ pc = "frag"
    /\ frag_i <= Len(statements)
    /\ LET node == CurrentNode
           statement == statements[frag_i]
           rw == Rewrite(node, statement)
       IN  IF rw.kind = "Err"
           THEN /\ result' = Err(rw.err)
                /\ pc' = "outcome"
                /\ UNCHANGED <<db, conn_log, n_rows, frag_i>>
           ELSE LET res == EngineExecute(rw.sql, db)
                IN  /\ db' = res.db
                    /\ conn_log' = Append(conn_log,
                          [model |-> node.id, index |-> frag_i,
                           sql |-> rw.sql, ok |-> res.ok, msg |-> res.msg])
                    /\ IF res.ok
                       THEN /\ n_rows' = CountAfter(node, res.db, n_rows)
                            /\ frag_i' = NextFragment(frag_i)
                            /\ UNCHANGED <<result, pc>>
                       ELSE IF IsBenign(res.msg)
                       THEN /\ frag_i' = NextFragment(frag_i)
                            /\ UNCHANGED <<n_rows, result, pc>>
                       ELSE /\ result' = Err(StatementExecutionError(
                                   res.msg, node.path, statement))
                            /\ pc' = "outcome"
                            /\ UNCHANGED <<n_rows, frag_i>>
    /\ UNCHANGED <<otherVars, files, config, node_map, schedVars, nth_processed,
                   statements, n_execution_success, execution_errors,
                   status_lines, ret>>

ExecuteReturn ==
    /\ pc = "frag"
    /\ frag_i > Len(statements)
    /\ result' = Ok(n_rows)
    /\ pc' = "outcome"
    /\ UNCHANGED <<otherVars, files, config, node_map, schedVars, nth_processed,
                   statements, frag_i, n_rows, db, conn_log,
                   n_execution_success, execution_errors, status_lines, ret>>

(***************************************************************************)
(* Session::run: the match on node.execute, the report, the return.        *)
(***************************************************************************)
\* the status printed for a model
StatusOf(node, res) ==
    IF res.kind = "Err"
    THEN [id |-> node.id, status |-> "ERROR", rows |-> 0]
    ELSE IF node.materialize # None /\ node.materialize = "table"
    THEN [id |-> node.id, status |-> "SELECT", rows |-> res.n_rows]
    ELSE [id |-> node.id, status |-> "CREATE VIEW", rows |-> 0]

\* slip: a model's error is propagated out of Session::run
ReturnOnOutcome_propagate(res) ==
    IF res.kind = "Err" THEN "Err" ELSE "running"

\* what Session::run returns on a model's outcome: nothing, the loop goes on
ReturnOnOutcome(res) == "running"

\* slip: the error is put in front of the recorded errors
PushError_front(errors, e) == <<e>> \o errors

\* execution_errors.push(e)
PushError(errors, e) == Append(errors, e)

RecordOutcome ==
    /\ pc = "outcome"
    /\ status_lines' = Append(status_lines, StatusOf(CurrentNode, result))
    /\ IF result.kind = "Ok"
       THEN /\ n_execution_success' = n_execution_success + 1
            /\ UNCHANGED execution_errors
       ELSE /\ execution_errors' = PushError(execution_errors, result.err)
            /\ UNCHANGED n_execution_success
    /\ nth_processed' = nth_processed + 1
    /\ result' = NoResult
    /\ ret' = ReturnOnOutcome(result)
    /\ pc' = IF ReturnOnOutcome(result) = "running" THEN "exec" ELSE "done"
    /\ UNCHANGED <<otherVars, files, config, node_map, schedVars, statements, frag_i,
                   n_rows, db, conn_log>>

Report ==
    /\ pc = "exec"
    /\ nth_processed > Len(sorted_valid_ids)
    /\ ret' = "Ok"
    /\ pc' = "done"
    /\ UNCHANGED <<otherVars, files, config, node_map, schedVars, execVars>>

Next ==
    \/ LoadModels
    \/ RenderAll
    \/ PopulateOutgoing
    \/ TopoStart
    \/ TopoVisit
    \/ TopoReturn
    \/ FilterInvalid
    \/ ExecuteBegin
    \/ ExecuteFragment
    \/ ExecuteReturn
    \/ RecordOutcome
    \/ Report

Spec == Init /\ [][Next]_vars

(***************************************************************************)
(* The earlier pipeline of src/src/main.rs: the dependencies of a model    *)
(* are the names its template passes to ref(), kept as they are; the rest  *)
(* of Session::run is the same.                                            *)
(***************************************************************************)
\* the names given to ref() while the template renders
RefCalls(src) == UNION {src[i].rel : i \in 1..Len(src)}

render_and_populate_refs_main(node) ==
    [node EXCEPT !.prevs = RefCalls(node.raw_src),
                 !.rendered_src = node.raw_src]

RenderAllMain ==
    /\ pc = "render"
    /\ node_map' = [m \in DOMAIN node_map |->
                       render_and_populate_refs_main(node_map[m])]
    /\ pc' = "graph"
    /\ UNCHANGED <<otherVars, files, config, schedVars, execVars, ret>>

InitMain == InitGraphs /\ macros = <<>> /\ InitRest

NextMain ==
    \/ LoadModels
    \/ RenderAllMain
    \/ PopulateOutgoing
    \/ TopoStart
    \/ TopoVisit
    \/ TopoReturn
    \/ FilterInvalid
    \/ ExecuteBegin
    \/ ExecuteFragment
    \/ ExecuteReturn
    \/ RecordOutcome
    \/ Report

SpecMain == InitMain /\ [][NextMain]_vars

(***************************************************************************)
(* Two runs on one database: Session::run is entered again with the same   *)
(* sources and configuration, on the connection the first run left.        *)
(***************************************************************************)
Rerun ==
    /\ pc = "done"
    /\ ret = "Ok"
    /\ first_run = NoRun
    /\ first_run' = [kind |-> "run", status_lines |-> status_lines, db |-> db]
    /\ pc' = "load"
    /\ node_map' = <<>>
    /\ invalid_node_ids' = {}
    /\ terminal_ids' = {}
    /\ stack' = <<>>
    /\ sorted_ids' = <<>>
    /\ sorted_valid_ids' = <<>>
    /\ nth_processed' = 1
    /\ statements' = <<>>
    /\ frag_i' = 0
    /\ n_rows' = 0
    /\ result' = NoResult
    /\ conn_log' = <<>>
    /\ n_execution_success' = 0
    /\ execution_errors' = <<>>
    /\ status_lines' = <<>>
    /\ ret' = "running"
    /\ warnings' = {}
    /\ topo_roots' = <<>>
    /\ UNCHANGED <<files, config, db, macros, ast, refs>>

InitRerun == InitChain /\ macros = <<>> /\ InitRest

NextRerun == Next \/ Rerun

SpecRerun == InitRerun /\ [][NextRerun]_vars

(***************************************************************************)
(* get_sql_references on the syntax tree of one statement.  A query has a  *)
(* list of common table expressions and a body; a body is a SELECT with    *)
(* its FROM list or a set operation of two bodies; a FROM item is a        *)
(* relation with joined relations; a relation is a named table or a        *)
(* derived table (a subquery).                                             *)
(***************************************************************************)
\* deepest nesting of queries in the statements tried
MaxNest == 2

TableNames == {"a", "b"}
\* names given to common table expressions: that of a model, and another
CteAliases == {"a", "x"}

Table(name) == [kind |-> "Table", name |-> name]
Derived(subquery) == [kind |-> "Derived", subquery |-> subquery]
TableWithJoins(relation, joins) == [relation |-> relation, joins |-> joins]
SelectBody(from) == [kind |-> "Select", from |-> from]
SetOperation(left, right) ==
    [kind |-> "SetOperation", left |-> left, right |-> right]
Query(with, body) == [with |-> with, body |-> body]
Cte(alias, query) == [alias |-> alias, query |-> query]
QueryStatement(query) == [kind |-> "Query", query |-> query]
OtherStatement == [kind |-> "SetVariable"]

From(relation) == SelectBody(<<TableWithJoins(relation, <<>>)>>)

\* queries nested at most d deep: one relation; a table joined with a
\* relation; a WITH over a shallower query; a UNION of two SELECTs
RECURSIVE Queries(_)
Queries(d) ==
    IF d = 0
    THEN {Query(<<>>, From(Table(n))) : n \in TableNames}
    ELSE LET Q == Queries(d - 1)
             T == {Table(n) : n \in TableNames}
             F == T \cup {Derived(q) : q \in Q}
         IN  {Query(<<>>, From(f)) : f \in F}
             \cup {Query(<<>>, SelectBody(<<TableWithJoins(t, <<f>>)>>)) :
                      t \in T, f \in F}
             \cup {Query(<<Cte(x, q)>>, From(Table(n))) :
                      x \in CteAliases, q \in Q,
                      n \in TableNames \cup CteAliases}
             \cup {Query(<<>>, SetOperation(From(f), From(t))) :
                      f \in F, t \in T}

RECURSIVE RelationNames(_)
RECURSIVE extract_dependency_names(_)
RECURSIVE SelectNames(_)
RECURSIVE extract_from_subquery(_)

\* the match on a TableFactor: Table, Derived, anything else
RelationNames(relation) ==
    CASE relation.kind = "Table" -> {relation.name}
      [] relation.kind = "Derived" -> extract_from_subquery(relation.subquery)
      [] OTHER -> {}

extract_dependency_names(table_with_joins) ==
    RelationNames(table_with_joins.relation)
    \cup UNION {RelationNames(table_with_joins.joins[i]) :
                   i \in 1..Len(table_with_joins.joins)}

\* if let SetExpr::Select(select) = body { for .. in &select.from { .. } }
SelectNames(body) ==
    IF body.kind = "Select"
    THEN UNION {extract_dependency_names(body.from[i]) :
                   i \in 1..Len(body.from)}
    ELSE {}

extract_from_subquery(query) == SelectNames(query.body)

extract_from_cte(cte) == SelectNames(cte.query.body)

\* the body of the loop over the parsed statements
StatementReferences(statement) ==
    IF statement.kind = "Query"
    THEN UNION {extract_from_cte(statement.query.with[i]) :
                   i \in 1..Len(statement.query.with)}
         \cup SelectNames(statement.query.body)
    ELSE {}

InitRefs ==
    /\ ast \in {QueryStatement(q) : q \in Queries(MaxNest)}
                 \cup {OtherStatement}
    /\ pc = "parse"
    /\ files = <<>>
    /\ config = <<>>
    /\ db = InitDb
    /\ first_run = NoRun
    /\ macros = <<>>
    /\ InitLocals

ExtractReferences ==
    /\ pc = "parse"
    /\ refs' = StatementReferences(ast)
    /\ pc' = "parsed"
    /\ UNCHANGED <<files, config, node_map, schedVars, execVars, ret,
                   first_run, macros, ast>>

NextRefs == ExtractReferences

SpecRefs == InitRefs /\ [][NextRefs]_vars

(***************************************************************************)
(* Vocabulary of the properties, stated on the observable state: the       *)
(* schedule, the statements the connection received, the printed status    *)
(* lines and the recorded errors.                                          *)
(***************************************************************************)
\* the scheduler has returned its sequence
Scheduled == pc \in {"exec", "frag", "outcome", "done"} /\ node_map # <<>>

PositionsOf(seq, id) == {i \in 1..Len(seq) : seq[i] = id}

\* record-producing, as the specification words it: the fragment begins,
\* in any letter case, with SELECT or WITH
RecordProducing(frag) == frag.head \in {"SELECT", "select", "WITH", "with"}

\* the non-empty fragments of a model's rendered text, in their order
FragmentsOf(m) ==
    LET NonBlank(f) == f # Blank
    IN  SelectSeq(node_map[m].rendered_src, NonBlank)

RecordProducingCount(m) ==
    Cardinality({i \in 1..Len(FragmentsOf(m)) : RecordProducing(FragmentsOf(m)[i])})

\* the statements of model m the connection received
EntriesOf(m) == {i \in 1..Len(conn_log) : conn_log[i].model = m}

\* the models whose execute step is over and matched
Finished == 1..Len(status_lines)
FinishedIds == {status_lines[k].id : k \in Finished}
Failed(k) == status_lines[k].status = "ERROR"

\* the error recorded for the k-th attempted model, a failed one
ErrorOf(k) ==
    execution_errors[Cardinality({j \in 1..k : Failed(j)})]

\* a fragment failure other than the benign empty-statement condition
HardFailure(e) == ~e.ok /\ e.msg # "No statement to prepare"

ConfiguredTable(m) == node_map[m].materialize \in {"table", "TABLE"}
ConfiguredView(m) == node_map[m].materialize \in {None, "view"}

(***************************************************************************)
(* C1 -- Ordering: in the scheduled sequence, every registered dependency  *)
(* p of a scheduled model m is itself scheduled, at a position strictly    *)
(* before every position of m, whatever the iteration order of the         *)
(* terminals and of the depends_on sets.                                   *)
(***************************************************************************)
C1_Ordering ==
    \A i \in 1..Len(sorted_valid_ids) :
       \A p \in node_map[sorted_valid_ids[i]].prevs \cap DOMAIN node_map :
          /\ PositionsOf(sorted_valid_ids, p) # {}
          /\ \A j \in PositionsOf(sorted_valid_ids, p) : j < i

\* a diamond a <- b, {a, b} <- c scheduled as a, b, c
C1_Witness ==
    /\ pc = "exec"
    /\ node_map["c"].prevs = {"a", "b"}
    /\ node_map["b"].prevs = {"a"}
    /\ sorted_valid_ids = <<"a", "b", "c">>

(***************************************************************************)
(* C2 -- Coverage: once the scheduler has run, the scheduled sequence      *)
(* holds every registered model exactly once.                              *)
(***************************************************************************)
C2_Coverage ==
    Scheduled =>
       \A m \in DOMAIN node_map :
          Cardinality(PositionsOf(sorted_valid_ids, m)) = 1

(***************************************************************************)
(* C3 -- Failure isolation: the models attempted so far are exactly the    *)
(* first models of the schedule, each once and in order, every failure is  *)
(* recorded, and a run that got past discovery ends with every scheduled   *)
(* model attempted and Session::run returning Ok.                          *)
(***************************************************************************)
C3_FailureIsolation ==
    /\ Len(status_lines) <= Len(sorted_valid_ids)
    /\ \A k \in Finished : status_lines[k].id = sorted_valid_ids[k]
    /\ Cardinality({k \in Finished : Failed(k)}) = Len(execution_errors)
    /\ (pc = "done" /\ ret # "UnknownModelType") =>
          /\ ret = "Ok"
          /\ Len(status_lines) = Len(sorted_valid_ids)

\* A -> B -> C with B's query rejected by the engine: A succeeded, B failed,
\* C was sent to the connection all the same
C3_Witness ==
    /\ pc = "done"
    /\ ret = "Ok"
    /\ sorted_valid_ids = <<"a", "b", "c">>
    /\ status_lines[1].status = "CREATE VIEW"
    /\ Failed(2)
    /\ ErrorOf(2).kind = "StatementExecutionError"
    /\ EntriesOf("c") # {}

(***************************************************************************)
(* C4 -- Dependencies run first, one model at a time: the statements the   *)
(* connection receives come model by model, in schedule order, and a       *)
(* model's statement is received only after every registered model of its  *)
(* depends_on has finished its execute step.                               *)
(***************************************************************************)
C4_DependenciesFirst ==
    /\ \A i \in 1..Len(conn_log) :
          LET m == conn_log[i].model
          IN  /\ \A p \in node_map[m].prevs \cap DOMAIN node_map :
                    p \in FinishedIds
              /\ m \in FinishedIds
                 \/ (pc \in {"frag", "outcome"} /\ m = CurrentNode.id)
    /\ \A i, j \in 1..Len(conn_log) :
          i < j =>
             \E pi \in PositionsOf(sorted_valid_ids, conn_log[i].model) :
                \E pj \in PositionsOf(sorted_valid_ids, conn_log[j].model) :
                   pi <= pj

\* c, which depends on b, has had a statement sent after a and b finished
C4_Witness ==
    /\ pc = "frag"
    /\ CurrentNode.id = "c"
    /\ CurrentNode.prevs = {"b"}
    /\ EntriesOf("c") # {}
    /\ FinishedIds = {"a", "b"}

(***************************************************************************)
(* C5 -- Statement-count validation: a model whose rendered text has zero  *)
(* or more than one record-producing fragment fails with a                 *)
(* model-definition error, and no fragment of it reaches the connection.   *)
(***************************************************************************)
C5_StatementCount ==
    /\ \A m \in DOMAIN node_map :
          (node_map[m].rendered_src # <<>> /\ RecordProducingCount(m) # 1)
             => EntriesOf(m) = {}
    /\ \A k \in Finished :
          RecordProducingCount(status_lines[k].id) # 1 =>
             /\ Failed(k)
             /\ ErrorOf(k).kind = "Error"

\* `SET ..; SELECT ..; select ..;` has failed with a model-definition error
C5_Witness ==
    /\ pc = "done"
    /\ \E k \in Finished :
          /\ RecordProducingCount(status_lines[k].id) = 2
          /\ Len(FragmentsOf(status_lines[k].id)) = 3
          /\ Failed(k)
          /\ ErrorOf(k).kind = "Error"

(***************************************************************************)
(* C6 -- Unknown materialization: a model configured with a value that is  *)
(* neither view nor table ends its execute step with a model-definition    *)
(* error, recorded as one failure.                                         *)
(***************************************************************************)
C6_UnknownMaterialization ==
    \A k \in Finished :
       LET m == status_lines[k].id
       IN  (~ConfiguredTable(m) /\ ~ConfiguredView(m)) =>
              /\ Failed(k)
              /\ ErrorOf(k).kind = "Error"

(***************************************************************************)
(* C7 -- Materialization rewrite: the connection receives a fragment       *)
(* rewritten exactly when the fragment is record-producing; the rewrite    *)
(* wraps that fragment under the model's own id, as a view when the        *)
(* materialization is view or absent and as a table when it is table; a    *)
(* model sends at most one materialization statement, and exactly one      *)
(* when its execution succeeds.                                            *)
(***************************************************************************)
MaterializationsOf(m) == {i \in EntriesOf(m) : conn_log[i].sql.create # ""}

C7_MaterializationRewrite ==
    /\ \A i \in 1..Len(conn_log) :
          LET e == conn_log[i]
              m == e.model
          IN  /\ e.sql.body = FragmentsOf(m)[e.index]
              /\ (e.sql.create # "") <=> RecordProducing(e.sql.body)
              /\ e.sql.create # "" =>
                    /\ e.sql.name = m
                    /\ ConfiguredView(m) => e.sql.create = "VIEW"
                    /\ ConfiguredTable(m) => e.sql.create = "TABLE"
                    /\ ConfiguredView(m) \/ ConfiguredTable(m)
    /\ \A m \in DOMAIN node_map : Cardinality(MaterializationsOf(m)) <= 1
    /\ \A k \in Finished :
          ~Failed(k) =>
             Cardinality(MaterializationsOf(status_lines[k].id)) = 1

\* a model configured TABLE, with a fragment before its query, has sent
\* one CREATE OR REPLACE TABLE and succeeded
C7_Witness ==
    /\ pc = "done"
    /\ \E k \in Finished :
          LET m == status_lines[k].id
          IN  /\ ~Failed(k)
              /\ Cardinality(EntriesOf(m)) = 2
              /\ \E i \in MaterializationsOf(m) :
                    conn_log[i].sql.create = "TABLE"

(***************************************************************************)
(* C8 -- Fragment failure aborts the model: after a fragment failed with   *)
(* anything but the benign empty-statement condition, the connection       *)
(* receives no later fragment of that model, and the model's outcome is a  *)
(* StatementExecutionError with the failing fragment's text, the engine's  *)
(* message and the model's source path.                                    *)
(***************************************************************************)
C8_FragmentFailureAborts ==
    \A i \in 1..Len(conn_log) :
       HardFailure(conn_log[i]) =>
          LET e == conn_log[i]
              m == e.model
              expected == [kind |-> "StatementExecutionError",
                           msg |-> e.msg,
                           path |-> <<"models", m, "sql">>,
                           sql |-> FragmentsOf(m)[e.index]]
          IN  /\ \A j \in EntriesOf(m) : j <= i
              /\ IF m \in FinishedIds
                 THEN \A k \in Finished :
                         status_lines[k].id = m =>
                            Failed(k) /\ ErrorOf(k) = expected
                 ELSE /\ pc = "outcome"
                      /\ CurrentNode.id = m
                      /\ result = [kind |-> "Err", err |-> expected]

\* the first of two fragments failed: the second was never sent
C8_Witness ==
    /\ pc = "done"
    /\ \E i \in 1..Len(conn_log) :
          /\ HardFailure(conn_log[i])
          /\ conn_log[i].index = 1
          /\ Len(FragmentsOf(conn_log[i].model)) = 2
          /\ conn_log[i].model \in FinishedIds

(***************************************************************************)
(* C9 -- Failure structure: every recorded failure exposes the failing     *)
(* model id, the source path, the SQL text that was sent to the engine     *)
(* (the rewritten statement for the record-producing fragment) and the     *)
(* engine's message.                                                       *)
(***************************************************************************)
C9_FailureStructure ==
    \A k \in Finished :
       Failed(k) =>
          LET m == status_lines[k].id
              err == ErrorOf(k)
              sent == {i \in EntriesOf(m) : HardFailure(conn_log[i])}
          IN  /\ {"id", "path", "sql", "msg"} \subseteq DOMAIN err
              /\ err.id = m
              /\ err.path = node_map[m].path
              /\ \A i \in sent :
                    /\ err.sql = conn_log[i].sql
                    /\ err.msg = conn_log[i].msg

(***************************************************************************)
(* C10 -- Row count: a successfully executed model whose materialization   *)
(* is table reports the row count of the table named by its id as it is    *)
(* after its last fragment; one whose materialization is view reports      *)
(* CREATE VIEW and no count.                                               *)
(***************************************************************************)
C10_RowCount ==
    \A k \in Finished :
       ~Failed(k) =>
          LET m == status_lines[k].id
          IN  /\ ConfiguredTable(m) =>
                    /\ status_lines[k].status = "SELECT"
                    /\ db[m].kind = "table"
                    /\ status_lines[k].rows = db[m].rows
              /\ ConfiguredView(m) => status_lines[k].status = "CREATE VIEW"

(***************************************************************************)
(* Further vocabulary: the error a model recorded, the names a source      *)
(* mentions, the shape of the dependency graph.                            *)
(***************************************************************************)
\* the model an error names, where it names one
ModelOfError(e) ==
    IF e.kind = "StatementExecutionError" THEN e.path[2]
    ELSE IF e.msg[1] = "Models must have exactly one SELECT statement"
    THEN e.msg[2]
    ELSE None

\* the table names the queries of m's source read from
CollectedNames(m) ==
    UNION {files[m].raw_src[i].rel :
              i \in {j \in 1..Len(files[m].raw_src) :
                        RecordProducing(files[m].raw_src[j])}}

\* the graph builder has run
GraphBuilt == pc \in {"topo", "overflow", "exec", "frag", "outcome", "done"}

\* the registered models no registered model depends on
TrueRoots ==
    {m \in DOMAIN node_map :
        ~\E x \in DOMAIN node_map : m \in node_map[x].prevs}

\* everything reachable from the models of S along depends_on
RECURSIVE Reach(_, _)
Reach(nodes, S) ==
    LET T == S \cup UNION {nodes[m].prevs \cap DOMAIN nodes : m \in S}
    IN  IF T = S THEN S ELSE Reach(nodes, T)

OnCycle(nodes, m) == m \in Reach(nodes, nodes[m].prevs \cap DOMAIN nodes)
HasCycle(nodes) == \E m \in DOMAIN nodes : OnCycle(nodes, m)

\* a source with a discovery error
UnknownType == \E m \in DOMAIN files : files[m].ext # "sql"
BadSource ==
    \E m \in DOMAIN files :
       \E i \in 1..Len(files[m].raw_src) :
          files[m].raw_src[i] \in {Unparsable, UnknownCall}

\* some model depends on an id that is no registered model
UnresolvedPairs ==
    {<<p, m>> \in Names \X DOMAIN node_map :
        p \in node_map[m].prevs /\ p \notin DOMAIN node_map}

\* every table name in a FROM or JOIN position of a query, at any depth
RECURSIVE QueryTables(_)
RECURSIVE BodyTables(_)
RECURSIVE FactorTables(_)

FactorTables(relation) ==
    CASE relation.kind = "Table" -> {relation.name}
      [] relation.kind = "Derived" -> QueryTables(relation.subquery)
      [] OTHER -> {}

BodyTables(body) ==
    IF body.kind = "Select"
    THEN UNION {FactorTables(body.from[i].relation)
                \cup UNION {FactorTables(body.from[i].joins[j]) :
                               j \in 1..Len(body.from[i].joins)} :
                   i \in 1..Len(body.from)}
    ELSE BodyTables(body.left) \cup BodyTables(body.right)

QueryTables(query) ==
    UNION {QueryTables(query.with[i].query) : i \in 1..Len(query.with)}
    \cup BodyTables(query.body)

(***************************************************************************)
(* C11 -- Final tally: the successes counted and the errors recorded are   *)
(* the succeeded and the failed models attempted so far, each attempted    *)
(* model in exactly one of the two; the recorded errors follow the order   *)
(* of the schedule; and at the end of a run that got past discovery the    *)
(* two counts add up to the number of scheduled models.                    *)
(***************************************************************************)
C11_FinalTally ==
    /\ n_execution_success = Cardinality({k \in Finished : ~Failed(k)})
    /\ Len(execution_errors) = Cardinality({k \in Finished : Failed(k)})
    /\ \A k \in Finished :
          (Failed(k) /\ ModelOfError(ErrorOf(k)) # None) =>
             ModelOfError(ErrorOf(k)) = sorted_valid_ids[k]
    /\ (pc = "done" /\ ret = "Ok") =>
          n_execution_success + Len(execution_errors) = Len(sorted_valid_ids)

\* a run ended with one success and two recorded errors
C11_Witness ==
    /\ pc = "done"
    /\ ret = "Ok"
    /\ n_execution_success = 1
    /\ Len(execution_errors) = 2
    /\ ModelOfError(execution_errors[1]) = "b"
    /\ ModelOfError(execution_errors[2]) = "c"

(***************************************************************************)
(* C12 -- Unresolved reference is not an error: once the graph builder has *)
(* seen a model m depending on an id p that is no registered model, a      *)
(* warning for (p, m) is printed, no dependents set holds p or names an    *)
(* unregistered model, the run does not crash, and it ends with every      *)
(* registered model scheduled and attempted.                               *)
(***************************************************************************)
C12_UnresolvedReference ==
    (UnresolvedPairs # {} /\ pc \notin {"load", "render", "graph"}) =>
       /\ UnresolvedPairs \subseteq warnings
       /\ \A m \in DOMAIN node_map : node_map[m].nexts \subseteq DOMAIN node_map
       /\ pc \notin {"panic", "overflow"}
       /\ pc = "done" =>
             /\ ret = "Ok"
             /\ DOMAIN node_map \subseteq Range(sorted_valid_ids)
             /\ DOMAIN node_map \subseteq FinishedIds

(***************************************************************************)
(* C13 -- Discovery errors fail fast: when a source has an extension other *)
(* than sql, or text that fails to parse or to render, the run never gets  *)
(* past discovery: nothing is sent to the connection, no model is          *)
(* attempted, and the run ends in a fatal error, which for an unknown      *)
(* extension is Session::run returning UnknownModelType.                   *)
(***************************************************************************)
C13_DiscoveryFailFast ==
    (UnknownType \/ BadSource) =>
       /\ conn_log = <<>>
       /\ status_lines = <<>>
       /\ pc \in {"load", "render", "done", "panic"}
       /\ pc = "done" => ret = "UnknownModelType"
       /\ UnknownType => pc \in {"load", "done"}

\* a .py source among the models: the run returned UnknownModelType
C13_Witness ==
    /\ UnknownType
    /\ pc = "done"
    /\ ret = "UnknownModelType"
    /\ conn_log = <<>>

(***************************************************************************)
(* C14 -- Reference filtering: once a model is rendered, its depends_on is *)
(* exactly the table names its queries read from that are registered model *)
(* ids; a name outside the model universe is in no depends_on.             *)
(***************************************************************************)
C14_ReferenceFiltering ==
    \A m \in DOMAIN node_map :
       /\ node_map[m].prevs \subseteq DOMAIN node_map
       /\ node_map[m].rendered_src # <<>> =>
             node_map[m].prevs = CollectedNames(m) \cap DOMAIN node_map

\* a query over `raw` and `a`: only `a` is kept
C14_Witness ==
    /\ pc = "graph"
    /\ \E m \in DOMAIN node_map :
          /\ CollectedNames(m) = {"raw", "a"}
          /\ node_map[m].prevs = {"a"}

(***************************************************************************)
(* C15 -- Materialization idempotence: a model materialized as a table     *)
(* that succeeded in a first run succeeds again in a second run on the     *)
(* same database, its relation is a table both times, and it reports and   *)
(* holds the same row count both times.                                    *)
(***************************************************************************)
C15_MaterializationIdempotence ==
    first_run # NoRun =>
       \A k \in Finished :
          LET m == status_lines[k].id
              F == {j \in 1..Len(first_run.status_lines) :
                       first_run.status_lines[j].id = m}
          IN  (/\ ConfiguredTable(m)
               /\ \E j \in F : first_run.status_lines[j].status # "ERROR") =>
                 /\ ~Failed(k)
                 /\ first_run.db[m].kind = "table"
                 /\ db[m].kind = "table"
                 /\ db[m].rows = first_run.db[m].rows
                 /\ \A j \in F :
                       status_lines[k].rows = first_run.status_lines[j].rows

\* a table model of two fragments has run twice and reported its rows
C15_Witness ==
    /\ first_run # NoRun
    /\ pc = "done"
    /\ \E k \in Finished :
          /\ node_map[status_lines[k].id].materialize = "table"
          /\ ~Failed(k)
          /\ status_lines[k].rows = 2
          /\ Cardinality(EntriesOf(status_lines[k].id)) = 2

(***************************************************************************)
(* C16 -- Cycle behaviour: whenever the depends_on graph holds a cycle (a  *)
(* self-reference included), the scheduler never returns a schedule.       *)
(***************************************************************************)
C16_CycleBehaviour == HasCycle(node_map) => ~Scheduled

(***************************************************************************)
(* C17 -- Dependents are the inverse of depends_on: after the graph        *)
(* builder, m is in the dependents of p exactly when p is in the           *)
(* depends_on of m, for registered m and p, and a dependents set holds     *)
(* registered ids only.                                                    *)
(***************************************************************************)
C17_DependentsInverse ==
    GraphBuilt =>
       \A p \in DOMAIN node_map :
          /\ node_map[p].nexts \subseteq DOMAIN node_map
          /\ \A m \in DOMAIN node_map :
                m \in node_map[p].nexts <=> p \in node_map[m].prevs

\* a has the two dependents b and c
C17_Witness ==
    /\ pc = "topo"
    /\ node_map["a"].nexts = {"b", "c"}
    /\ node_map["b"].prevs = {"a"}
    /\ node_map["c"].prevs = {"a"}

(***************************************************************************)
(* C18 -- Traversal roots: topo is called from Session::run at most once   *)
(* per model, only on models no registered model depends on, and, when     *)
(* the scheduler has returned, on every such model.                        *)
(***************************************************************************)
C18_TraversalRoots ==
    /\ \A i, j \in 1..Len(topo_roots) :
          i # j => topo_roots[i] # topo_roots[j]
    /\ Range(topo_roots) \subseteq TrueRoots
    /\ \A t \in Range(topo_roots) : node_map[t].nexts = {}
    /\ pc = "topo" => Range(topo_roots) \cup terminal_ids = TrueRoots
    /\ Scheduled => Range(topo_roots) = TrueRoots

\* the traversal was started from the two roots b and c of a <- b, a <- c
C18_Witness ==
    /\ pc = "exec"
    /\ Len(topo_roots) = 2
    /\ Range(topo_roots) = {"b", "c"}
    /\ node_map["a"].nexts = {"b", "c"}

(***************************************************************************)
(* C19 -- Invalid-id filtering is a no-op: no invalid id is among the ids  *)
(* the traversal produced, and the filtered schedule is the unfiltered     *)
(* one, element for element.                                               *)
(***************************************************************************)
C19_FilterNoOp ==
    /\ invalid_node_ids \cap Range(sorted_ids) = {}
    /\ Scheduled => sorted_valid_ids = sorted_ids

\* three models scheduled, one of them reading the unregistered `raw`
C19_Witness ==
    /\ pc = "exec"
    /\ Len(sorted_ids) = 3
    /\ sorted_valid_ids = sorted_ids
    /\ \E m \in DOMAIN node_map : "raw" \in CollectedNames(m)

(***************************************************************************)
(* C20 -- Extraction at every nesting level: for a query statement,        *)
(* get_sql_references returns every table name in a FROM or JOIN position  *)
(* at any depth: in the bodies of common table expressions, in derived     *)
(* tables, in what is nested in those, and in each branch of a set         *)
(* operation.                                                              *)
(***************************************************************************)
C20_ExtractionEveryLevel ==
    (pc = "parsed" /\ ast.kind = "Query") =>
       QueryTables(ast.query) \subseteq refs

(***************************************************************************)
(* C21 -- Extraction follows rendering: when every source is of type sql   *)
(* and every template is valid (it parses once rendered, and invokes only  *)
(* macros the macro set defines), rendering never crashes on a macro       *)
(* definition or invocation, and every rendered model's depends_on is the  *)
(* registered names its rendered queries read from.                        *)
(***************************************************************************)
TemplatesValid ==
    /\ ~UnknownType
    /\ ~BadSource
    /\ \A m \in DOMAIN files :
          \A i \in 1..Len(files[m].raw_src) :
             MacroCall \in files[m].raw_src[i].rel =>
                MacroDef \in Range(macros)

\* the table names the queries of m read from, in the rendered text
RenderedNames(m) ==
    UNION {{Expand(n) : n \in files[m].raw_src[i].rel} :
              i \in {j \in 1..Len(files[m].raw_src) :
                        RecordProducing(files[m].raw_src[j])}}

C21_ExtractionFollowsRendering ==
    TemplatesValid =>
       /\ pc # "panic"
       /\ \A m \in DOMAIN node_map :
             node_map[m].rendered_src # <<>> =>
                node_map[m].prevs = RenderedNames(m) \cap DOMAIN node_map

(***************************************************************************)
(* C22 -- Local CTE alias shadows a model: a name read in the scope of a   *)
(* common table expression of that name is the alias, not the model, and   *)
(* is in no depends_on: the registered names get_sql_references returns    *)
(* for a query statement are names the statement reads as tables.          *)
(***************************************************************************)
\* the tables a query reads, the names bound by a WITH in scope left out
RECURSIVE RealTables(_, _)
RECURSIVE RealBody(_, _)
RECURSIVE RealFactor(_, _)

RealFactor(relation, scope) ==
    CASE relation.kind = "Table" ->
            IF relation.name \in scope THEN {} ELSE {relation.name}
      [] relation.kind = "Derived" -> RealTables(relation.subquery, scope)
      [] OTHER -> {}

RealBody(body, scope) ==
    IF body.kind = "Select"
    THEN UNION {RealFactor(body.from[i].relation, scope)
                \cup UNION {RealFactor(body.from[i].joins[j], scope) :
                               j \in 1..Len(body.from[i].joins)} :
                   i \in 1..Len(body.from)}
    ELSE RealBody(body.left, scope) \cup RealBody(body.right, scope)

RealTables(query, scope) ==
    UNION {RealTables(query.with[i].query,
                      scope \cup {query.with[j].alias : j \in 1..(i - 1)}) :
              i \in 1..Len(query.with)}
    \cup RealBody(query.body,
                  scope \cup {query.with[i].alias : i \in 1..Len(query.with)})

C22_CteAliasShadows ==
    (pc = "parsed" /\ ast.kind = "Query") =>
       (refs \cap ModelIds) \subseteq RealTables(ast.query, {})

(***************************************************************************)
(* C23 -- Fragment order: the statements a model sends to the connection   *)
(* are its fragments in their order in the rendered text, one entry per    *)
(* fragment and none skipped, a fragment that is not record-producing      *)
(* verbatim; and a fragment is sent only after the one before it returned  *)
(* success or the benign empty-statement condition.                        *)
(***************************************************************************)
\* the entries of model m with a position before i
EntriesBefore(m, i) == {j \in EntriesOf(m) : j < i}

C23_FragmentOrder ==
    \A i \in 1..Len(conn_log) :
       LET e == conn_log[i]
           m == e.model
       IN  /\ e.index = Cardinality(EntriesBefore(m, i)) + 1
           /\ e.index <= Len(FragmentsOf(m))
           /\ e.sql.body = FragmentsOf(m)[e.index]
           /\ ~RecordProducing(e.sql.body) =>
                 e.sql = [create |-> "", name |-> "", replace |-> FALSE,
                          body |-> FragmentsOf(m)[e.index]]
           /\ \A j \in EntriesBefore(m, i) :
                 conn_log[j].ok \/ conn_log[j].msg = "No statement to prepare"

\* three fragments of one model were sent, the first one a bare comment
C23_Witness ==
    /\ pc = "done"
    /\ \E m \in DOMAIN node_map :
          /\ Len(FragmentsOf(m)) = 3
          /\ Cardinality(EntriesOf(m)) = 3
          /\ \E i \in EntriesOf(m) :
                conn_log[i].index = 1 /\ ~conn_log[i].ok

(***************************************************************************)
(* C24 -- Benign empty-statement skip: a fragment that failed with the     *)
(* engine's empty-statement condition is followed by the model's next      *)
(* fragment, and is never what the model fails with: a model that met the  *)
(* condition fails only with the error of another fragment or with a       *)
(* model-definition error, and succeeds otherwise, all fragments sent.     *)
(***************************************************************************)
BenignEntries(m) ==
    {i \in EntriesOf(m) :
        ~conn_log[i].ok /\ conn_log[i].msg = "No statement to prepare"}

C24_BenignSkip ==
    /\ \A i \in 1..Len(conn_log) :
          LET e == conn_log[i]
              m == e.model
          IN  (i \in BenignEntries(m) /\ e.index < Len(FragmentsOf(m))) =>
                 \/ \E j \in EntriesOf(m) : conn_log[j].index = e.index + 1
                 \/ pc = "frag" /\ CurrentNode.id = m /\ frag_i = e.index + 1
                 \/ pc = "outcome" /\ CurrentNode.id = m
                    /\ result.kind = "Err" /\ result.err.kind = "Error"
                 \/ \E k \in Finished :
                       /\ status_lines[k].id = m
                       /\ Failed(k)
                       /\ ErrorOf(k).kind = "Error"
    /\ \A k \in Finished :
          LET m == status_lines[k].id
          IN  BenignEntries(m) # {} =>
                 IF Failed(k)
                 THEN \/ ErrorOf(k).kind = "Error"
                      \/ \E i \in EntriesOf(m) :
                            /\ HardFailure(conn_log[i])
                            /\ ErrorOf(k).msg = conn_log[i].msg
                 ELSE Cardinality(EntriesOf(m)) = Len(FragmentsOf(m))

\* `SELECT ..; -- note; SET ..`: the comment was skipped, the model succeeded
C24_Witness ==
    /\ pc = "done"
    /\ \E k \in Finished :
          LET m == status_lines[k].id
          IN  /\ ~Failed(k)
              /\ Len(FragmentsOf(m)) = 3
              /\ Cardinality(EntriesOf(m)) = 3
              /\ \E i \in BenignEntries(m) : conn_log[i].index = 2

(***************************************************************************)
(* C25 -- Render once, before execution: the rendered text and the         *)
(* depends_on of a model are written only by the render pass, which a run  *)
(* enters once, after discovery; the dependents only by the graph builder; *)
(* the execution phase is entered with every model rendered and changes    *)
(* nothing of the registry.                                                *)
(***************************************************************************)
ExecutionPhase == {"exec", "frag", "outcome"}

AllRendered ==
    \A m \in DOMAIN node_map : node_map[m].rendered_src # <<>>

RenderOnceStep ==
    /\ pc' = "render" /\ pc # "render" => pc = "load"
    /\ pc # "load" =>
          \A m \in DOMAIN node_map :
             /\ (node_map'[m].rendered_src # node_map[m].rendered_src
                 \/ node_map'[m].prevs # node_map[m].prevs) => pc = "render"
             /\ node_map'[m].nexts # node_map[m].nexts => pc = "graph"
    /\ pc \in ExecutionPhase => node_map' = node_map
    /\ pc' \in ExecutionPhase => AllRendered'

C25_RenderOnce == [][RenderOnceStep]_vars

\* two models have been executed, all three were rendered before
C25_Witness ==
    /\ pc = "frag"
    /\ AllRendered
    /\ Len(status_lines) = 2
    /\ node_map["c"].prevs = {"a", "b"}

(***************************************************************************)
(* C26 -- Isolated cycle is dropped silently: the models no terminal model *)
(* reaches along depends_on (those of a cycle without terminal dependents, *)
(* and those only such a cycle leads to) are never scheduled nor executed, *)
(* no warning and no error names them, and the scheduler overflows only    *)
(* when a terminal model reaches a cycle.                                  *)
(***************************************************************************)
\* the models some terminal model reaches, itself included
Covered == Reach(node_map, TrueRoots)
Stranded == DOMAIN node_map \ Covered

C26_IsolatedCycleDropped ==
    /\ pc = "overflow" => \E m \in Covered : OnCycle(node_map, m)
    /\ GraphBuilt =>
          \A m \in Stranded :
             /\ \E x \in Stranded : OnCycle(node_map, x)
             /\ m \notin Range(sorted_ids) \cup Range(sorted_valid_ids)
             /\ m \notin Range(topo_roots)
             /\ EntriesOf(m) = {}
             /\ m \notin FinishedIds
             /\ \A w \in warnings : w[1] # m /\ w[2] # m
             /\ \A j \in 1..Len(execution_errors) :
                   ModelOfError(execution_errors[j]) # m

\* a <-> b with c apart: the run ended Ok having scheduled and run c only
C26_Witness ==
    /\ pc = "done"
    /\ ret = "Ok"
    /\ node_map["a"].prevs = {"b"}
    /\ node_map["b"].prevs = {"a"}
    /\ Stranded = {"a", "b"}
    /\ sorted_valid_ids = <<"c">>
    /\ FinishedIds = {"c"}
    /\ execution_errors = <<>>

(***************************************************************************)
(* C27 -- Scheduler terminates on acyclic input: when depends_on has no    *)
(* cycle, the recursion of topo never goes deeper than the number of       *)
(* models, no model is on the call stack twice, the stack never overflows, *)
(* and the output holds registered ids only, none twice, whatever the      *)
(* order in which terminals and dependencies are taken.                    *)
(***************************************************************************)
C27_AcyclicTerminates ==
    ~HasCycle(node_map) =>
       /\ pc # "overflow"
       /\ Len(stack) <= Cardinality(DOMAIN node_map)
       /\ \A i, j \in 1..Len(stack) : i # j => stack[i].id # stack[j].id
       /\ Range(sorted_ids) \subseteq DOMAIN node_map
       /\ \A i, j \in 1..Len(sorted_ids) :
             i # j => sorted_ids[i] # sorted_ids[j]

\* the diamond a <- b, {a, b} <- c: one root, a reached twice, pushed once
C27_Witness ==
    /\ pc = "exec"
    /\ node_map["c"].prevs = {"a", "b"}
    /\ node_map["b"].prevs = {"a"}
    /\ topo_roots = <<"c">>
    /\ Len(sorted_ids) = 3

(***************************************************************************)
(* C28 -- Model-definition errors are atomic: a model whose execute step   *)
(* ended with a model-definition error has sent no statement to the        *)
(* connection.                                                             *)
(***************************************************************************)
C28_DefinitionErrorsAtomic ==
    \A k \in Finished :
       (Failed(k) /\ ErrorOf(k).kind = "Error") =>
          EntriesOf(status_lines[k].id) = {}

(***************************************************************************)
(* C29 -- Reported kind agrees with the materialization performed: a       *)
(* successfully executed model is reported with a row count exactly when   *)
(* the statement sent for it was CREATE OR REPLACE TABLE, and the count    *)
(* reported is then that of its table.                                     *)
(***************************************************************************)
C29_ReportedKindAgrees ==
    \A k \in Finished :
       ~Failed(k) =>
          LET m == status_lines[k].id
              asTable == \E i \in MaterializationsOf(m) :
                            conn_log[i].sql.create = "TABLE"
          IN  /\ status_lines[k].status = "SELECT" <=> asTable
              /\ asTable => status_lines[k].rows = db[m].rows

====
